---- MODULE Spec2Model ----
(***************************************************************************)
(* Model of SymbolTable (src/backend/symbols.ts): the table built from two *)
(* objdump reports, its two relocation entry points and its lookups.       *)
(*                                                                         *)
(* Encoding of JavaScript values:                                          *)
(*   - a string is a sequence of lexical tokens (" " is one blank, the     *)
(*     token ".hidden" stands for those seven characters), so that trim,   *)
(*     startsWith, substring and split act on it;                          *)
(*   - a hexadecimal or decimal field of a report is a sequence of digit   *)
(*     values, turned into a number by parseInt;                           *)
(*   - a nullable or optional value is a sequence of length 0 (null or     *)
(*     undefined) or 1.                                                    *)
(***************************************************************************)
EXTENDS Integers, Sequences, FiniteSets, TLC

VARIABLES pc, sections, symbols, objdump, lines, thrown, ret

vars == <<pc, sections, symbols, objdump, lines, thrown, ret>>

\* ------------------------------------------------------------------ bounds

\* most section headers in a section report
MaxSections == 3
\* most lines of a symbol report handed to the constructor (SpecBuild)
MaxLines == 3
\* most symbol lines of a table that is relocated (SpecReloc)
MaxRelocLines == 2
\* most symbol lines of a table that is queried (SpecQuery)
MaxQueryLines == 3
\* most entries of a relocate() list
MaxList == 2
\* the addresses asked of getFunctionAtAddress are 0 .. MaxAddr
MaxAddr == 12

\* ------------------------------------------------------------ JS primitives

Null == <<>>
Some(x) == <<x>>

Blank == " "

RECURSIVE TrimStart(_)
TrimStart(s) ==
  IF s # <<>> /\ Head(s) = Blank THEN TrimStart(Tail(s)) ELSE s

RECURSIVE TrimEnd(_)
TrimEnd(s) ==
  IF s # <<>> /\ s[Len(s)] = Blank THEN TrimEnd(SubSeq(s, 1, Len(s) - 1)) ELSE s

\* String.prototype.trim
Trim(s) == TrimEnd(TrimStart(s))

RECURSIVE ParseRadix(_, _, _)
ParseRadix(digits, radix, acc) ==
  IF digits = <<>> THEN acc
  ELSE ParseRadix(Tail(digits), radix, acc * radix + Head(digits))

\* parseInt(s, 16) and parseInt(s) on a field the regular expression has
\* already restricted to digits
ParseHex(digits) == ParseRadix(digits, 16, 0)
ParseDec(digits) == ParseRadix(digits, 10, 0)

RECURSIVE Pow2(_)
Pow2(n) == IF n = 0 THEN 1 ELSE 2 * Pow2(n - 1)

Comma == ", "

\* s.split(', '): the pieces between the separator tokens, each piece one token
\* (objdump writes one word per flag)
RECURSIVE Split(_)
Split(s) ==
  IF s = <<>> THEN <<>>
  ELSE IF Head(s) = Comma THEN Split(Tail(s))
  ELSE <<Head(s)>> \o Split(Tail(s))

\* Array.prototype.find by predicate "name equals": the index of the first
\* match, 0 when there is none
FindSection(secs, name) ==
  IF \E i \in DOMAIN secs : secs[i].name = name
  THEN CHOOSE i \in DOMAIN secs :
         /\ secs[i].name = name
         /\ \A j \in 1..(i - 1) : secs[j].name # name
  ELSE 0

\* flags.find((v) => v === "ALLOC") is truthy
HasAlloc(flags) == \E i \in DOMAIN flags : flags[i] = "ALLOC"

\* ------------------------------------------------------------------ tables

TYPE_MAP ==
  [c \in {"F", "f", "O", " "} |->
     CASE c = "F" -> "Function"
       [] c = "f" -> "File"
       [] c = "O" -> "Object"
       [] c = " " -> "Normal"]

SCOPE_MAP ==
  [c \in {"l", "g", " ", "!"} |->
     CASE c = "l" -> "Local"
       [] c = "g" -> "Global"
       [] c = " " -> "Neither"
       [] c = "!" -> "Both"]

ABS == "*ABS*"
Artificial == <<"<artificial>">>
Hidden == ".hidden"

\* ------------------------------------------------------- child_process

\* What spawnSync returns: the tool ran and exited 0; it ran and exited 1 (no
\* error object is set then); it could not be started (status null, error
\* set); it was killed by a signal (status null, no error object).
SpawnResults ==
  { [status |-> Some(0), error |-> Null],
    [status |-> Some(1), error |-> Null],
    [status |-> Null, error |-> Some("ENOENT")],
    [status |-> Null, error |-> Null] }

SpawnOk == [status |-> Some(0), error |-> Null]

NoThrow == [kind |-> "none"]

\* throw objdump.error: the error object of the spawn, or the value undefined
ThrowSpawnError(res) ==
  IF res.error = Null THEN [kind |-> "undefined"]
  ELSE [kind |-> "SpawnError", cause |-> res.error[1]]

\* ------------------------------------------------------ the two reports

\* objdump prints an address as eight hexadecimal digits
Hex8(n) == <<0, 0, 0, 0, 0, 0, n \div 16, n % 16>>

SeqsUpTo(S, n) == UNION { [1..k -> S] : k \in 0..n }

\* A line of the section report that SECTION_REGEX1 does not match
TextLine(toks) == [match |-> FALSE, toks |-> toks]

\* A line SECTION_REGEX1 matches, as its capture groups
HeaderLine(name, size, vma, lma, algn) ==
  [match |-> TRUE, toks |-> <<>>, name |-> name, size |-> Hex8(size),
   vma |-> Hex8(vma), lma |-> Hex8(lma), fileOff |-> Hex8(0), algn |-> <<algn>>]

\* The selections of at most n lines of a listing, in the listing's order
Selection(listing, S) ==
  LET F[i \in 0..Len(listing)] ==
        IF i = 0 THEN <<>>
        ELSE IF i \in S THEN Append(F[i - 1], listing[i]) ELSE F[i - 1]
  IN F[Len(listing)]

Selections(listing, n) ==
  { Selection(listing, S) :
      S \in { T \in SUBSET (1..Len(listing)) : Cardinality(T) <= n } }

\* The header groups objdump prints for the executable: a header line and the
\* line of flags under it. A linked executable names each section once.
SectionGroups ==
  << <<HeaderLine(".text", 4, 2, 1, 2),
       TextLine(<<Blank, Blank, "CONTENTS", Comma, "ALLOC", Comma, "LOAD", Comma, "CODE">>)>>,
     <<HeaderLine(".comment", 2, 0, 0, 0),
       TextLine(<<Blank, Blank, "CONTENTS", Comma, "READONLY">>)>>,
     <<HeaderLine(".data", 2, 7, 6, 1),
       TextLine(<<Blank, Blank, "CONTENTS", Comma, "ALLOC", Comma, "LOAD", Comma, "DATA">>)>>,
     <<HeaderLine(".bss", 0, 9, 9, 1),
       TextLine(<<Blank, Blank, "ALLOC">>)>> >>

RECURSIVE Flatten(_)
Flatten(groups) ==
  IF groups = <<>> THEN <<>> ELSE Head(groups) \o Flatten(Tail(groups))

\* A section report: the banner, the column titles, at most MaxSections of the
\* groups, and the empty piece split('\n') leaves after the last newline
SectionReports ==
  { <<TextLine(<<"Sections:">>), TextLine(<<"Idx", Blank, "Name">>)>>
      \o Flatten(gs) \o <<TextLine(<<>>)>> :
    gs \in Selections(SectionGroups, MaxSections) }

\* A line of the symbol report SYMBOL_REGEX matches, as its capture groups
\* [1] address, [2] scope, [7] debug, [8] type, [9] section, [10] size, [11] name
SymbolLine(addr, scope, debug, type, section, size, name) ==
  [match |-> TRUE, addr |-> Hex8(addr), scope |-> scope, debug |-> debug,
   type |-> type, section |-> section, size |-> Hex8(size), name |-> name]

\* A line SYMBOL_REGEX does not match ("SYMBOL TABLE:", an empty line)
OtherLine == [match |-> FALSE]

\* ------------------------------------------------------------ constructor

RECURSIVE ParseSections(_, _, _)
ParseSections(ls, i, acc) ==
  IF i > Len(ls) THEN acc
  ELSE IF ls[i].match
  THEN ParseSections(ls, i + 2,
         Append(acc,
           [name |-> ls[i].name,
            address |-> 0,
            size |-> ParseHex(ls[i].size),
            vma |-> ParseHex(ls[i].vma),
            lma |-> ParseHex(ls[i].lma),
            fileOffset |-> ParseHex(ls[i].fileOff),
            align |-> Pow2(ParseDec(ls[i].algn)),
            flags |-> Split(Trim(ls[i + 1].toks))]))
  ELSE ParseSections(ls, i + 1, acc)

\* getSections(): what it throws and the sections it leaves
getSections(res, report) ==
  IF res.status # Some(0)
  THEN [thrown |-> ThrowSpawnError(res), sections |-> <<>>]
  ELSE [thrown |-> NoThrow, sections |-> ParseSections(report, 1, <<>>)]

\* !currentFile
Falsy(file) == file = Null \/ file[1] = <<>>

\* The running context after the marker test of one record line
NextFile(line, currentFile) ==
  IF line.debug = "d" /\ line.type = "f" THEN Some(Trim(line.name)) ELSE currentFile

StartsWithHidden(name) == name # <<>> /\ Head(name) = Hidden

\* name after the '.hidden' prefix is cut off
SymbolName(line) ==
  LET name == Trim(line.name)
  IN IF StartsWithHidden(name) THEN Trim(Tail(name)) ELSE name

\* FixScope that tests for an unset file only
FixScopeUnsetOnly(scope, currentFile) ==
  IF scope = "Local" /\ Falsy(currentFile) THEN "Global" ELSE scope

\* scope after the fix for LTO
FixScope(scope, currentFile) ==
  IF scope = "Local" /\ (Falsy(currentFile) \/ currentFile[1] = Artificial)
  THEN "Global" ELSE scope

\* DecodeSymbol that forgets to subtract the load address of the section
DecodeSymbolRawAddress(secs, line, currentFile, i) ==
  LET scope == FixScope(SCOPE_MAP[line.scope], currentFile)
  IN [address |-> ParseHex(line.addr),
      base |-> 0,
      type |-> TYPE_MAP[line.type],
      scope |-> scope,
      section |-> line.section,
      size |-> ParseHex(line.size),
      name |-> SymbolName(line),
      lines |-> Null,
      file |-> IF scope = "Local" THEN currentFile ELSE Null,
      hidden |-> StartsWithHidden(Trim(line.name))]

\* The record pushed for one matching line whose section resolved to index i
\* (0 for "*ABS*")
DecodeSymbol(secs, line, currentFile, i) ==
  LET scope == FixScope(SCOPE_MAP[line.scope], currentFile)
  IN [address |-> ParseHex(line.addr) - (IF i # 0 THEN secs[i].lma ELSE 0),
      base |-> 0,
      type |-> TYPE_MAP[line.type],
      scope |-> scope,
      section |-> line.section,
      size |-> ParseHex(line.size),
      name |-> SymbolName(line),
      lines |-> Null,
      file |-> IF scope = "Local" THEN currentFile ELSE Null,
      hidden |-> StartsWithHidden(Trim(line.name))]

SectionNotFound(section, name) ==
  [kind |-> "Error", message |-> "Section not found", section |-> section,
   symbol |-> name]

RECURSIVE DecodeLines(_, _, _, _)
DecodeLines(secs, ls, currentFile, acc) ==
  IF ls = <<>> THEN [thrown |-> NoThrow, symbols |-> acc]
  ELSE IF ~Head(ls).match THEN DecodeLines(secs, Tail(ls), currentFile, acc)
  ELSE LET line == Head(ls)
           file == NextFile(line, currentFile)
           i == FindSection(secs, line.section)
       IN IF line.section # ABS /\ i = 0
          THEN [thrown |-> SectionNotFound(line.section, SymbolName(line)),
                symbols |-> acc]
          ELSE DecodeLines(secs, Tail(ls), file,
                           Append(acc, DecodeSymbol(secs, line, file, i)))

\* getSymbols(): what it throws and the symbols it leaves
getSymbols(secs, res, report) ==
  IF Len(secs) = 0
  THEN [thrown |-> [kind |-> "Error", message |-> "call getSections() before getSymbols()!"],
        symbols |-> <<>>]
  ELSE IF res.status # Some(0)
  THEN [thrown |-> ThrowSpawnError(res), symbols |-> <<>>]
  ELSE DecodeLines(secs, report, Null, <<>>)

NoCall == [op |-> "none"]

\* The constructor, in its two calls. pc = "new": nothing has run;
\* "sections": getSections() has returned; "ready": the constructor has
\* returned a table; "failed": it has thrown and there is no table.
InitBuild ==
  /\ pc = "new"
  /\ sections = <<>>
  /\ symbols = <<>>
  /\ objdump = SpawnOk
  /\ lines = <<>>
  /\ thrown = NoThrow
  /\ ret = NoCall

GetSections(res, report) ==
  /\ pc = "new"
  /\ LET r == getSections(res, report)
     IN /\ sections' = r.sections
        /\ thrown' = r.thrown
        /\ pc' = IF r.thrown = NoThrow THEN "sections" ELSE "failed"
  /\ objdump' = res
  /\ UNCHANGED <<symbols, lines, ret>>

GetSymbols(res, report) ==
  /\ pc = "sections"
  /\ LET r == getSymbols(sections, res, report)
     IN /\ symbols' = r.symbols
        /\ thrown' = r.thrown
        /\ pc' = IF r.thrown = NoThrow THEN "ready" ELSE "failed"
  /\ objdump' = IF Len(sections) # 0 THEN res ELSE objdump
  /\ lines' = IF Len(sections) # 0 /\ res.status = Some(0) THEN report ELSE <<>>
  /\ UNCHANGED <<sections, ret>>

\* The symbol lines objdump may print for the constructor
BuildLines ==
  { SymbolLine(0, "l", "d", "f", ABS, 0, <<"a.c">>),
    SymbolLine(0, "l", "d", "f", ABS, 0, <<"b.c", Blank>>),
    SymbolLine(0, "l", "d", "f", ABS, 0, Artificial),
    SymbolLine(0, "l", "d", "f", ABS, 0, <<>>),
    SymbolLine(3, "l", " ", "F", ".text", 2, <<Hidden, Blank, "foo">>),
    SymbolLine(5, "g", " ", " ", ".bogus", 0, <<"baz">>),
    SymbolLine(11, "!", " ", "O", ABS, 0, <<"abs">>),
    OtherLine }

SymbolReports == SeqsUpTo(BuildLines, MaxLines)

\* What the tool wrote to its standard output: a report when it exited 0;
\* otherwise the output is never read, and it is taken empty
StdoutOf(res, reports) == IF res.status = Some(0) THEN reports ELSE {<<>>}

NextBuild ==
  \/ \E res \in SpawnResults :
       \E report \in StdoutOf(res, SectionReports) : GetSections(res, report)
  \/ \E res \in SpawnResults :
       \E report \in StdoutOf(res, SymbolReports) : GetSymbols(res, report)

SpecBuild == InitBuild /\ [][NextBuild]_vars

\* -------------------------------------------------------------- relocation

\* ApplyRelocated with a loop that stops after its first entry
ApplyRelocatedFirstOnly(secs, list) ==
  IF list = <<>> THEN secs
  ELSE LET i == FindSection(secs, Head(list).name)
       IN IF i # 0 THEN [secs EXCEPT ![i].address = Head(list).address] ELSE secs

\* relocatedSections.forEach(...): each entry, in order, sets the address of
\* the first section that carries its name
RECURSIVE ApplyRelocated(_, _)
ApplyRelocated(secs, list) ==
  IF list = <<>> THEN secs
  ELSE LET i == FindSection(secs, Head(list).name)
       IN ApplyRelocated(
            IF i # 0 THEN [secs EXCEPT ![i].address = Head(list).address] ELSE secs,
            Tail(list))

\* UpdateBases that refreshes the first symbol only
UpdateBasesFirstOnly(secs, syms) ==
  [k \in DOMAIN syms |->
     LET i == FindSection(secs, syms[k].section)
     IN IF i # 0 /\ k = 1 THEN [syms[k] EXCEPT !.base = secs[i].address] ELSE syms[k]]

\* this.symbols.forEach(...): the base of every symbol whose section is found
UpdateBases(secs, syms) ==
  [k \in DOMAIN syms |->
     LET i == FindSection(secs, syms[k].section)
     IN IF i # 0 THEN [syms[k] EXCEPT !.base = secs[i].address] ELSE syms[k]]

relocate(secs, syms, relocatedSections) ==
  LET moved == ApplyRelocated(secs, relocatedSections)
  IN [sections |-> moved, symbols |-> UpdateBases(moved, syms)]

\* Qualifies without the size test
QualifiesAnySize(section) == HasAlloc(section.flags)

\* the test of relocateWithOffset and of getRelocatedSections
Qualifies(section) == HasAlloc(section.flags) /\ section.size > 0

\* ApplyOffset that adds the offset to the current address
ApplyOffsetToAddress(secs, loadOffset) ==
  [i \in DOMAIN secs |->
     IF Qualifies(secs[i])
     THEN [secs[i] EXCEPT !.address = secs[i].address + loadOffset]
     ELSE secs[i]]

ApplyOffset(secs, loadOffset) ==
  [i \in DOMAIN secs |->
     IF Qualifies(secs[i])
     THEN [secs[i] EXCEPT !.address = secs[i].vma + loadOffset]
     ELSE secs[i]]

relocateWithOffset(secs, syms, loadOffset) ==
  LET moved == ApplyOffset(secs, loadOffset)
  IN [sections |-> moved, symbols |-> UpdateBases(moved, syms)]

\* relocatedBases[i] of a Uint32Array, 0-based: undefined past its end
At(bases, i) == IF i < Len(bases) THEN Some(bases[i + 1]) ELSE Null

\* The loop of getRelocatedSections from section k on with count qualifying
\* sections seen: the copies pushed, and the final count
RECURSIVE Snapshot(_, _, _, _, _)
Snapshot(secs, bases, k, count, acc) ==
  IF k > Len(secs) THEN [sections |-> acc, count |-> count]
  ELSE IF Qualifies(secs[k])
  THEN Snapshot(secs, bases, k + 1, count + 1,
                Append(acc, [secs[k] EXCEPT !.address = At(bases, count)]))
  ELSE Snapshot(secs, bases, k + 1, count,
                Append(acc, [secs[k] EXCEPT !.address = Some(secs[k].vma)]))

\* getRelocatedSections that only notices missing addresses
getRelocatedSectionsTooFew(secs, relocatedBases) ==
  LET r == Snapshot(secs, relocatedBases, 1, 0, <<>>)
  IN IF r.count > Len(relocatedBases)
     THEN [thrown |-> [kind |-> "Error", message |-> "number of sections mismatch",
                       given |-> Len(relocatedBases), count |-> r.count],
           value |-> <<>>]
     ELSE [thrown |-> NoThrow, value |-> r.sections]

\* getRelocatedSections(): what it throws, or the snapshot it returns (an
\* address of the snapshot is Some(n))
getRelocatedSections(secs, relocatedBases) ==
  LET r == Snapshot(secs, relocatedBases, 1, 0, <<>>)
  IN IF r.count # Len(relocatedBases)
     THEN [thrown |-> [kind |-> "Error", message |-> "number of sections mismatch",
                       given |-> Len(relocatedBases), count |-> r.count],
           value |-> <<>>]
     ELSE [thrown |-> NoThrow, value |-> r.sections]

Relocate(relocatedSections) ==
  /\ pc = "ready"
  /\ LET r == relocate(sections, symbols, relocatedSections)
     IN /\ sections' = r.sections
        /\ symbols' = r.symbols
  /\ ret' = [op |-> "relocate"]
  /\ UNCHANGED <<pc, objdump, lines, thrown>>

RelocateWithOffset(loadOffset) ==
  /\ pc = "ready"
  /\ LET r == relocateWithOffset(sections, symbols, loadOffset)
     IN /\ sections' = r.sections
        /\ symbols' = r.symbols
  /\ ret' = [op |-> "relocateWithOffset"]
  /\ UNCHANGED <<pc, objdump, lines, thrown>>

GetRelocatedSections(relocatedBases) ==
  /\ pc = "ready"
  /\ LET r == getRelocatedSections(sections, relocatedBases)
     IN ret' = [op |-> "getRelocatedSections", bases |-> relocatedBases,
                thrown |-> r.thrown, value |-> r.value]
  /\ UNCHANGED <<pc, sections, symbols, objdump, lines, thrown>>

\* new SymbolTable(...) on two reports objdump printed
Construct(sectionReport, symbolReport) ==
  LET s == getSections(SpawnOk, sectionReport)
      y == getSymbols(s.sections, SpawnOk, symbolReport)
  IN [thrown |-> y.thrown, sections |-> s.sections, symbols |-> y.symbols]

\* The tables the constructor returns on the given symbol reports
InitTable(sectionReports, symbolReports) ==
  \E sectionReport \in sectionReports, symbolReport \in symbolReports :
    LET t == Construct(sectionReport, symbolReport)
    IN /\ t.thrown = NoThrow
       /\ pc = "ready"
       /\ sections = t.sections
       /\ symbols = t.symbols
       /\ objdump = SpawnOk
       /\ lines = symbolReport
       /\ thrown = NoThrow
       /\ ret = NoCall

\* The symbol listing of the tables that are relocated
RelocLines ==
  << SymbolLine(3, "g", " ", "F", ".text", 2, <<"main">>),
     SymbolLine(1, "g", " ", "O", ".comment", 1, <<"note">>),
     SymbolLine(7, "g", " ", "O", ".data", 1, <<"var">>),
     SymbolLine(5, "g", " ", " ", ABS, 0, <<"abs">>) >>

\* The entries of a relocate() list: of a Section only name and address are read
RelocEntries ==
  { [name |-> ".text", address |-> 8],
    [name |-> ".text", address |-> 9],
    [name |-> ".comment", address |-> 8],
    [name |-> ".bss", address |-> 9],
    [name |-> ".nope", address |-> 9] }

RelocLists == SeqsUpTo(RelocEntries, MaxList)

LoadOffsets == {0, 8}

\* The arrays handed to getRelocatedSections: rising and falling addresses, up
\* to one entry more than there can be qualifying sections
BaseArrays ==
  UNION { { [i \in 1..k |-> 7 + i], [i \in 1..k |-> 13 - i] } :
          k \in 0..(MaxSections + 1) }

InitReloc == InitTable(SectionReports, Selections(RelocLines, MaxRelocLines))

NextReloc ==
  \/ \E list \in RelocLists : Relocate(list)
  \/ \E offset \in LoadOffsets : RelocateWithOffset(offset)

SpecReloc == InitReloc /\ [][NextReloc]_vars

\* The same tables, relocated one section or one offset at a time, and their
\* snapshots
NextSnapshot ==
  \/ \E entry \in RelocEntries : Relocate(<<entry>>)
  \/ \E offset \in LoadOffsets : RelocateWithOffset(offset)
  \/ \E bases \in BaseArrays : GetRelocatedSections(bases)

SpecSnapshot == InitReloc /\ [][NextSnapshot]_vars

\* ------------------------------------------------------------------ lookups

\* The symbols, by index, that pass the filter of getFunctionAtAddress, from
\* symbol k on
RECURSIVE MatchesAt(_, _, _, _)
MatchesAt(syms, k, address, relocated) ==
  IF k > Len(syms) THEN <<>>
  ELSE LET s == syms[k]
           symAddress == IF relocated THEN s.address + s.base ELSE s.address
       IN (IF s.type = "Function" /\ symAddress <= address /\ (symAddress + s.size) > address
           THEN <<k>> ELSE <<>>)
          \o MatchesAt(syms, k + 1, address, relocated)

\* getFunctionAtAddress that adds the base whatever the flag says
getFunctionAtAddressAlwaysBase(syms, address, relocated) ==
  LET matches == MatchesAt(syms, 1, address, TRUE)
  IN IF Len(matches) = 0 THEN 0 ELSE matches[1]

\* getFunctionAtAddress(): the symbol returned, as its index in symbols; 0 is
\* null
getFunctionAtAddress(syms, address, relocated) ==
  LET matches == MatchesAt(syms, 1, address, relocated)
  IN IF Len(matches) = 0 THEN 0 ELSE matches[1]

\* a === b of a value that is a string or null and one that is a string or
\* undefined: null and undefined are not strictly equal
StrictEq(a, b) == a # Null /\ b # Null /\ a = b

\* The symbols that pass the first filter of getFunctionByName, from k on
RECURSIVE StaticMatches(_, _, _, _)
StaticMatches(syms, k, name, file) ==
  IF k > Len(syms) THEN <<>>
  ELSE (IF /\ syms[k].type = "Function"
           /\ syms[k].scope = "Local"
           /\ syms[k].name = name
           /\ StrictEq(syms[k].file, file)
        THEN <<k>> ELSE <<>>)
       \o StaticMatches(syms, k + 1, name, file)

\* The symbols that pass its second filter
RECURSIVE GlobalMatches(_, _, _)
GlobalMatches(syms, k, name) ==
  IF k > Len(syms) THEN <<>>
  ELSE (IF /\ syms[k].type = "Function"
           /\ syms[k].scope # "Local"
           /\ syms[k].name = name
        THEN <<k>> ELSE <<>>)
       \o GlobalMatches(syms, k + 1, name)

\* GlobalMatches without the scope test
RECURSIVE AnyScopeMatches(_, _, _)
AnyScopeMatches(syms, k, name) ==
  IF k > Len(syms) THEN <<>>
  ELSE (IF syms[k].type = "Function" /\ syms[k].name = name THEN <<k>> ELSE <<>>)
       \o AnyScopeMatches(syms, k + 1, name)

\* getFunctionByName whose fallback takes a function of any scope
getFunctionByNameAnyScope(syms, name, file) ==
  LET static == StaticMatches(syms, 1, name, file)
      global == AnyScopeMatches(syms, 1, name)
  IN IF Len(static) # 0 THEN static[1]
     ELSE IF Len(global) # 0 THEN global[1] ELSE 0

\* getFunctionByName(): the symbol returned, as its index in symbols; 0 is
\* null. file is Null when the argument is left out.
getFunctionByName(syms, name, file) ==
  LET static == StaticMatches(syms, 1, name, file)
      global == GlobalMatches(syms, 1, name)
  IN IF Len(static) # 0 THEN static[1]
     ELSE IF Len(global) # 0 THEN global[1] ELSE 0

GetFunctionAtAddress(address, relocated) ==
  /\ pc = "ready"
  /\ ret' = [op |-> "getFunctionAtAddress", address |-> address,
             relocated |-> relocated,
             result |-> getFunctionAtAddress(symbols, address, relocated)]
  /\ UNCHANGED <<pc, sections, symbols, objdump, lines, thrown>>

GetFunctionByName(name, file) ==
  /\ pc = "ready"
  /\ ret' = [op |-> "getFunctionByName", name |-> name, file |-> file,
             result |-> getFunctionByName(symbols, name, file)]
  /\ UNCHANGED <<pc, sections, symbols, objdump, lines, thrown>>

\* The symbol listing of the tables that are queried
QueryLines ==
  << SymbolLine(0, "l", "d", "f", ABS, 0, <<"a.c">>),
     SymbolLine(2, "l", " ", "F", ".text", 2, <<"helper">>),
     SymbolLine(3, "g", " ", "F", ".text", 2, <<"helper">>),
     SymbolLine(6, "g", " ", "F", ".data", 0, <<"main">>),
     SymbolLine(1, "g", " ", "O", ".text", 4, <<"helper">>),
     SymbolLine(5, "g", " ", "F", ABS, 2, <<"main">>) >>

\* The section report with the first MaxSections groups
FullSectionReport ==
  <<TextLine(<<"Sections:">>), TextLine(<<"Idx", Blank, "Name">>)>>
    \o Flatten(Selection(SectionGroups, 1..MaxSections)) \o <<TextLine(<<>>)>>

QueryNames == { <<"helper">>, <<"main">>, <<"nope">> }

\* the file argument: left out, or the name of a compile unit
QueryFiles == { Null, Some(<<"a.c">>), Some(<<"b.c">>) }

InitQuery == InitTable({FullSectionReport}, Selections(QueryLines, MaxQueryLines))

NextQuery ==
  \/ Relocate(<<[name |-> ".text", address |-> 9]>>)
  \/ \E offset \in LoadOffsets : RelocateWithOffset(offset)
  \/ \E address \in 0..MaxAddr, relocated \in BOOLEAN :
       GetFunctionAtAddress(address, relocated)
  \/ \E name \in QueryNames, file \in QueryFiles : GetFunctionByName(name, file)

SpecQuery == InitQuery /\ [][NextQuery]_vars

\* ------------------------------------------------- properties: relocation

SectionNamed(name) == CHOOSE i \in DOMAIN sections : sections[i].name = name

HasSection(name) == \E i \in DOMAIN sections : sections[i].name = name

\* C1: in every state the constructor and any sequence of relocate and
\* relocateWithOffset calls can reach, every symbol whose section is not
\* "*ABS*" has its base equal to the current address of the section that
\* carries its section name.
C1_BaseIsSectionAddress ==
  pc = "ready" =>
    \A k \in DOMAIN symbols :
      symbols[k].section # ABS =>
        /\ HasSection(symbols[k].section)
        /\ symbols[k].base = sections[SectionNamed(symbols[k].section)].address

\* Both entry points have acted, and two symbols of different sections carry
\* different bases that are not the initial 0.
C1_Witness ==
  /\ pc = "ready"
  /\ ret.op = "relocate"
  /\ \E k, l \in DOMAIN symbols :
       /\ symbols[k].section = ".text" /\ symbols[k].base = 9
       /\ symbols[l].section = ".data" /\ symbols[l].base = 15

\* C2: from any reachable table, a second relocate(m) with the same list, or a
\* second relocateWithOffset(o) with the same offset, leaves every section and
\* every symbol as the first call left them.
C2_Idempotent ==
  pc = "ready" =>
    /\ \A m \in RelocLists :
         LET once == relocate(sections, symbols, m)
         IN relocate(once.sections, once.symbols, m) = once
    /\ \A o \in LoadOffsets :
         LET once == relocateWithOffset(sections, symbols, o)
         IN relocateWithOffset(once.sections, once.symbols, o) = once

\* A table that has been relocated both ways, where a further call of either
\* kind still moves a section (so the first of the two calls is no no-op).
C2_Witness ==
  /\ pc = "ready"
  /\ ret.op = "relocateWithOffset"
  /\ \E i \in DOMAIN sections : sections[i].address = 9
  /\ \E m \in RelocLists : relocate(sections, symbols, m).sections # sections
  /\ \E o \in LoadOffsets :
       relocateWithOffset(sections, symbols, o).symbols # symbols

\* The entries of list m that name the section called name
Naming(m, name) == { e \in DOMAIN m : m[e].name = name }

Last(S) == CHOOSE e \in S : \A f \in S : f <= e

\* C3: relocate(list) gives each table section named in the list the address
\* the list supplies for it (the one of the last entry that names it, should
\* several do), leaves the address of every other section as it was, ignores
\* an entry that names no table section, and changes no field of a section
\* but address and no field of a symbol but base.
C3_RelocateFrame ==
  pc = "ready" =>
    \A m \in RelocLists :
      LET r == relocate(sections, symbols, m)
      IN /\ DOMAIN r.sections = DOMAIN sections
         /\ DOMAIN r.symbols = DOMAIN symbols
         /\ \A i \in DOMAIN sections :
              /\ [r.sections[i] EXCEPT !.address = sections[i].address] = sections[i]
              /\ r.sections[i].address =
                   IF Naming(m, sections[i].name) = {}
                   THEN sections[i].address
                   ELSE m[Last(Naming(m, sections[i].name))].address
         /\ \A k \in DOMAIN symbols :
              [r.symbols[k] EXCEPT !.base = symbols[k].base] = symbols[k]

\* A relocate call has moved .text to 9 while .data keeps the address an
\* earlier relocateWithOffset(8) gave it.
C3_Witness ==
  /\ pc = "ready"
  /\ ret.op = "relocate"
  /\ HasSection(".text") /\ sections[SectionNamed(".text")].address = 9
  /\ HasSection(".data") /\ sections[SectionNamed(".data")].address = 15
  /\ Len(symbols) > 0

\* C4: after relocateWithOffset(o) every section whose flags contain "ALLOC"
\* and whose size is above 0 has address vma + o, and every other section
\* keeps the address it had, also one an earlier relocate call gave it.
C4_OffsetMovesAllocSections ==
  pc = "ready" =>
    \A o \in LoadOffsets :
      LET r == relocateWithOffset(sections, symbols, o)
      IN /\ DOMAIN r.sections = DOMAIN sections
         /\ \A i \in DOMAIN sections :
              r.sections[i].address =
                IF (\E f \in DOMAIN sections[i].flags : sections[i].flags[f] = "ALLOC")
                   /\ sections[i].size > 0
                THEN sections[i].vma + o
                ELSE sections[i].address

\* relocateWithOffset(8) has run on a table whose .bss (ALLOC, empty) was put
\* at 9 by relocate: .bss is still at 9, the other section has moved.
C4_Witness ==
  /\ pc = "ready"
  /\ ret.op = "relocateWithOffset"
  /\ HasSection(".bss") /\ sections[SectionNamed(".bss")].address = 9
  /\ \/ HasSection(".text") /\ sections[SectionNamed(".text")].address = 10
     \/ HasSection(".data") /\ sections[SectionNamed(".data")].address = 15

\* the sections before section i that have "ALLOC" and a size above 0
QualifyingBefore(secs, i) ==
  { j \in 1..(i - 1) :
      (\E f \in DOMAIN secs[j].flags : secs[j].flags[f] = "ALLOC")
      /\ secs[j].size > 0 }

\* C5: getRelocatedSections(bases) throws the count-mismatch error whenever
\* bases has fewer or more entries than the table has sections with "ALLOC"
\* and size above 0; otherwise it returns one entry per section in table
\* order, the i-th qualifying section at bases[i] and every other section at
\* its vma; either way the sections and symbols of the table stay as they are.
C5_Snapshot ==
  [][ret'.op = "getRelocatedSections" =>
       /\ sections' = sections
       /\ symbols' = symbols
       /\ LET n == Cardinality(QualifyingBefore(sections, Len(sections) + 1))
              bases == ret'.bases
          IN IF Len(bases) # n
             THEN /\ ret'.thrown.kind = "Error"
                  /\ ret'.thrown.message = "number of sections mismatch"
             ELSE /\ ret'.thrown = NoThrow
                  /\ DOMAIN ret'.value = DOMAIN sections
                  /\ \A i \in DOMAIN sections :
                       ret'.value[i] =
                         [sections[i] EXCEPT !.address =
                            IF i \in QualifyingBefore(sections, i + 1)
                            THEN Some(bases[Cardinality(QualifyingBefore(sections, i)) + 1])
                            ELSE Some(sections[i].vma)]
  ]_vars

\* A snapshot of a relocated table with two qualifying sections around one
\* that does not qualify has been returned.
C5_Witness ==
  /\ ret.op = "getRelocatedSections"
  /\ ret.thrown = NoThrow
  /\ Len(ret.bases) = 2
  /\ \E i \in DOMAIN sections :
       /\ sections[i].name = ".comment"
       /\ sections[i].address = 8
       /\ ret.value[i].address = Some(0)

\* ------------------------------------------------ properties: constructor

\* getSymbols() got as far as its loop over the lines of the symbol report
Decoded ==
  /\ pc \in {"ready", "failed"}
  /\ Len(sections) # 0
  /\ objdump.status = Some(0)

\* The lines of the symbol report that are records, and the k-th of them
Records == { i \in DOMAIN lines : lines[i].match }

Record(k) ==
  CHOOSE i \in Records : Cardinality({ j \in Records : j <= i }) = k

\* The record lines that name a section the table does not have
Dangling ==
  { i \in Records :
      /\ lines[i].section # ABS
      /\ \A s \in DOMAIN sections : sections[s].name # lines[i].section }

First(S) == CHOOSE e \in S : \A f \in S : e <= f

\* C6: if a record line names a section that is neither "*ABS*" nor a parsed
\* section, the constructor throws the unknown-section error naming the symbol
\* of the first such line and returns no table; otherwise it returns a table
\* with one symbol per record line, whose section is "*ABS*" or a section of
\* the table and whose address is the raw address minus that section's lma
\* (minus 0 for "*ABS*").
C6_NoDanglingSection ==
  Decoded =>
    IF Dangling # {}
    THEN /\ pc = "failed"
         /\ thrown.kind = "Error"
         /\ thrown.message = "Section not found"
         /\ thrown.section = lines[First(Dangling)].section
         /\ thrown.symbol = SymbolName(lines[First(Dangling)])
    ELSE /\ pc = "ready"
         /\ thrown = NoThrow
         /\ Len(symbols) = Cardinality(Records)
         /\ \A k \in DOMAIN symbols :
              LET line == lines[Record(k)]
              IN /\ symbols[k].section = line.section
                 /\ \/ /\ line.section = ABS
                       /\ symbols[k].address = ParseHex(line.addr)
                    \/ /\ line.section # ABS
                       /\ HasSection(line.section)
                       /\ symbols[k].address =
                            ParseHex(line.addr) - sections[SectionNamed(line.section)].lma

\* The constructor has thrown on the symbol baz of the unknown section .bogus,
\* after it had decoded a symbol of .text (raw address 3, lma 1) and an
\* absolute one.
C6_Witness ==
  /\ Decoded
  /\ pc = "failed"
  /\ thrown.kind = "Error"
  /\ thrown.symbol = <<"baz">>
  /\ Len(symbols) = 2
  /\ \E k, l \in DOMAIN symbols :
       /\ symbols[k].section = ".text" /\ symbols[k].address = 2
       /\ symbols[l].section = ABS /\ symbols[l].address = 11

\* The compile-unit markers among the lines up to line i, line i included
Markers(i) ==
  { j \in Records : j <= i /\ lines[j].debug = "d" /\ lines[j].type = "f" }

\* C7: a line flagged local that is decoded while currentFile (set by a marker
\* line before that same line is decoded) is unset, empty or "<artificial>"
\* yields a Global symbol with file null; every symbol has a file exactly when
\* its scope is Local; and the file of a Local symbol is the name of the most
\* recent marker at or before its line and is never "<artificial>".
C7_LocalScopeAndFile ==
  Decoded =>
    \A k \in DOMAIN symbols :
      LET i == Record(k)
          unset == Markers(i) = {}
          current == IF unset THEN <<>> ELSE Trim(lines[Last(Markers(i))].name)
      IN /\ (lines[i].scope = "l" /\ (unset \/ current = <<>> \/ current = Artificial))
              => (symbols[k].scope = "Global" /\ symbols[k].file = Null)
         /\ (symbols[k].file # Null) <=> (symbols[k].scope = "Local")
         /\ symbols[k].scope = "Local" =>
              /\ ~unset
              /\ symbols[k].file = Some(current)
              /\ symbols[k].file # Some(Artificial)

\* A table of three symbols: the marker of a.c (Local, file a.c), the marker
\* "<artificial>" and a local function after it, both made Global without file.
C7_Witness ==
  /\ pc = "ready"
  /\ Len(symbols) = 3
  /\ symbols[1].scope = "Local" /\ symbols[1].file = Some(<<"a.c">>)
  /\ symbols[2].name = Artificial /\ symbols[2].scope = "Global"
  /\ lines[3].scope = "l" /\ symbols[3].type = "Function"
  /\ symbols[3].scope = "Global" /\ symbols[3].file = Null

\* C10: whenever a tool invocation did not exit with status 0, the constructor
\* fails with a tool-invocation error that carries the underlying cause.
C10_ToolFailureCarriesCause ==
  objdump.status # Some(0) =>
    /\ pc = "failed"
    /\ thrown.kind = "SpawnError"

\* ---------------------------------------------------- properties: lookups

\* the address symbol k is looked up at
EffectiveAddress(k, relocated) ==
  symbols[k].address + (IF relocated THEN symbols[k].base ELSE 0)

\* Function symbol k covers address a
Covers(k, a, relocated) ==
  /\ symbols[k].type = "Function"
  /\ EffectiveAddress(k, relocated) <= a
  /\ a < EffectiveAddress(k, relocated) + symbols[k].size

\* C8: getFunctionAtAddress(a, relocated) returns the first symbol in table
\* order that is a Function with eff <= a < eff + size, eff being address +
\* base when relocated and address alone when not, and null when there is
\* none; it never returns a Function of size 0. And for a Function f of an
\* ALLOC, non-empty section S, after relocateWithOffset(o) the lookup of
\* S.vma + o + f.address + k (0 <= k < f.size, relocated) returns f unless an
\* earlier Function covers that address too.
C8_FunctionAtAddress ==
  /\ ret.op = "getFunctionAtAddress" =>
       LET hits == { k \in DOMAIN symbols : Covers(k, ret.address, ret.relocated) }
       IN /\ ret.result = IF hits = {} THEN 0 ELSE First(hits)
          /\ ret.result # 0 => symbols[ret.result].size # 0
  /\ pc = "ready" =>
       \A o \in LoadOffsets, f \in DOMAIN symbols :
         ( /\ symbols[f].type = "Function"
           /\ HasSection(symbols[f].section)
           /\ \E g \in DOMAIN sections[SectionNamed(symbols[f].section)].flags :
                sections[SectionNamed(symbols[f].section)].flags[g] = "ALLOC"
           /\ sections[SectionNamed(symbols[f].section)].size > 0 ) =>
         LET S == sections[SectionNamed(symbols[f].section)]
             after == relocateWithOffset(sections, symbols, o).symbols
         IN \A k \in 0..(symbols[f].size - 1) :
              LET a == S.vma + o + symbols[f].address + k
                  got == getFunctionAtAddress(after, a, TRUE)
              IN \/ got = f
                 \/ /\ got # 0 /\ got < f
                    /\ after[got].type = "Function"
                    /\ after[got].address + after[got].base <= a
                    /\ a < after[got].address + after[got].base + after[got].size

\* A relocated lookup, after relocateWithOffset, has returned a function whose
\* base is not 0 although a later function covers the address too, and at that
\* address no function is found statically.
C8_Witness ==
  /\ ret.op = "getFunctionAtAddress"
  /\ ret.relocated
  /\ ret.result # 0
  /\ symbols[ret.result].base = 10
  /\ \E k \in DOMAIN symbols :
       k > ret.result /\ Covers(k, ret.address, TRUE)
  /\ \A k \in DOMAIN symbols : ~Covers(k, ret.address, FALSE)

\* C9: getFunctionByName(name, file) returns the first Function in table order
\* that is Local, has that name and whose file is the requested one; failing
\* that, the first Function of that name whose scope is not Local; failing
\* that, null. It never returns a Local function of another file, and never a
\* Local function when file is left out.
C9_FunctionByName ==
  ret.op = "getFunctionByName" =>
    LET named == { k \in DOMAIN symbols :
                     symbols[k].type = "Function" /\ symbols[k].name = ret.name }
        static == { k \in named :
                      /\ symbols[k].scope = "Local"
                      /\ ret.file # Null
                      /\ symbols[k].file = ret.file }
        global == { k \in named : symbols[k].scope # "Local" }
    IN /\ ret.result = IF static # {} THEN First(static)
                       ELSE IF global # {} THEN First(global) ELSE 0
       /\ (ret.result # 0 /\ symbols[ret.result].scope = "Local") =>
            (ret.file # Null /\ symbols[ret.result].file = ret.file)

\* helper was asked for in b.c and the Global helper came back, although the
\* table holds a Local helper of a.c before it.
C9_Witness ==
  /\ ret.op = "getFunctionByName"
  /\ ret.name = <<"helper">>
  /\ ret.file = Some(<<"b.c">>)
  /\ ret.result # 0
  /\ symbols[ret.result].scope = "Global"
  /\ \E k \in DOMAIN symbols :
       /\ k < ret.result
       /\ symbols[k].type = "Function"
       /\ symbols[k].scope = "Local"
       /\ symbols[k].name = <<"helper">>
       /\ symbols[k].file = Some(<<"a.c">>)

====
